---------------------------- MODULE Spec2Model ----------------------------
(***************************************************************************)
(* kube-checker: the fetch / extract / aggregate / rank pipeline of        *)
(* src/src/main.rs.                                                        *)
(*                                                                         *)
(* Strings whose characters matter (names, keys, quantities, the merged    *)
(* container list) are sequences of one-character strings, so that         *)
(* format!, join, split, contains and replace are computed character by    *)
(* character.  Image references are sequences of tokens and `contains` is  *)
(* a test on tokens.  Option<T> is a sequence of length at most one.       *)
(* total_cores is kept in millicores (the f32 number of cores times 1000)  *)
(* as a natural number.                                                    *)
(***************************************************************************)
EXTENDS Naturals, Sequences, FiniteSets, TLC

VARIABLES
    pc,          \* position of main: "spawn", "recv1", "recv2", "done", "failed"
    proc,        \* the process: "running", "exited", "aborted" (a panic)
    tasks,       \* per namespace, the get_pods task: [st, pods]
    senders1,    \* live Sender clones of the first channel
    chan1,       \* first channel: messages [ns, pods] (Ok(pod_list))
    rayon,       \* per namespace, the extraction closure: "none"/"queued"/"ran"
    senders2,    \* live Sender clones of the second channel
    chan2,       \* second channel: Result<Vec<ExtractedAndTaggedObject>>
    rx2Open,     \* receiver_2 not yet dropped
    container_level_results,
    object_level_results,
    table,       \* the records rendered as the table (filtered or not)
    log,         \* log lines written through info!
    mainResult,  \* what main returned: <<>> while running, else <<Result>>
    disable_filter,  \* args.disable_filter as read at line 127
    aggIn,       \* aggregation on its own: input records
    aggKey,      \* aggregation on its own: "container" or "object"
    aggOut,      \* aggregation on its own: output, <<>> before the call
    aggDone,     \* aggregation on its own: the call has been made
    exSpec,      \* extraction on its own: the pod spec
    exReplicas,  \* extraction on its own: the replica count
    exOut,       \* extraction on its own: the Result, Ok(<<>>) before the call
    exDone       \* extraction on its own: the call has been made

vars == <<pc, proc, tasks, senders1, chan1, rayon, senders2, chan2, rx2Open,
          container_level_results, object_level_results, table, log,
          mainResult, disable_filter, aggIn, aggKey, aggOut, aggDone,
          exSpec, exReplicas, exOut, exDone>>

pipeVars == <<pc, proc, tasks, senders1, chan1, rayon, senders2, chan2, rx2Open,
              container_level_results, object_level_results, table, log,
              mainResult, disable_filter>>

aggVars == <<aggIn, aggKey, aggOut, aggDone>>

exVars == <<exSpec, exReplicas, exOut, exDone>>

-----------------------------------------------------------------------------
(* Bounds *)

\* namespaces given on the command line
NumNamespaces == 2
\* pods in the cluster, over all namespaces
MaxPods == 2
\* records in an input of agg_and_sort checked on its own
MaxRecs == 3
\* containers in a pod spec of extract_containers_and_info checked on its own
MaxContainers == 2

-----------------------------------------------------------------------------
(* Strings and options *)

None == <<>>
Some(x) == <<x>>

Str_pod == <<"p", "o", "d">>
Dash == <<"-">>
Bar == <<"|">>

\* "a", "a-a", "a-a-a", ...: Kubernetes names of k parts
RECURSIVE Name(_)
Name(k) == IF k <= 1 THEN <<"a">> ELSE Name(k - 1) \o <<"-", "a">>

RECURSIVE Contains(_, _)
Contains(s, ch) ==
    IF s = <<>> THEN FALSE
    ELSE IF Head(s) = ch THEN TRUE ELSE Contains(Tail(s), ch)

\* str::replace(ch, "")
RECURSIVE RemoveChar(_, _)
RemoveChar(s, ch) ==
    IF s = <<>> THEN <<>>
    ELSE IF Head(s) = ch THEN RemoveChar(Tail(s), ch)
         ELSE <<Head(s)>> \o RemoveChar(Tail(s), ch)

\* str::split(ch): the pieces, in order
RECURSIVE SplitAcc(_, _, _)
SplitAcc(s, ch, cur) ==
    IF s = <<>> THEN <<cur>>
    ELSE IF Head(s) = ch THEN <<cur>> \o SplitAcc(Tail(s), ch, <<>>)
         ELSE SplitAcc(Tail(s), ch, Append(cur, Head(s)))

Split(s, ch) == SplitAcc(s, ch, <<>>)

\* [String]::join(sep)
RECURSIVE Join(_, _)
Join(parts, sep) ==
    IF parts = <<>> THEN <<>>
    ELSE IF Len(parts) = 1 THEN parts[1]
         ELSE parts[1] \o sep \o Join(Tail(parts), sep)

Range(s) == {s[i] : i \in DOMAIN s}

\* every ordering of a finite set
RECURSIVE Perms(_)
Perms(S) ==
    IF S = {} THEN {<<>>}
    ELSE UNION {{<<e>> \o p : p \in Perms(S \ {e})} : e \in S}

Digits == {"0", "1", "2", "3", "4", "5", "6", "7", "8", "9"}

DigitVal(c) ==
    CASE c = "0" -> 0 [] c = "1" -> 1 [] c = "2" -> 2 [] c = "3" -> 3
      [] c = "4" -> 4 [] c = "5" -> 5 [] c = "6" -> 6 [] c = "7" -> 7
      [] c = "8" -> 8 [] c = "9" -> 9

RECURSIVE DecValue(_, _)
DecValue(s, acc) ==
    IF s = <<>> THEN acc ELSE DecValue(Tail(s), acc * 10 + DigitVal(Head(s)))

Ok(v) == [tag |-> "Ok", val |-> v]
Err(m) == [tag |-> "Err", msg |-> m]
Panicked == [tag |-> "Panic"]

\* str::parse::<f32>() on the strings of the model: a non-empty run of decimal
\* digits is its value, anything else is an error
ParseF32(s) ==
    IF s # <<>> /\ \A i \in DOMAIN s : s[i] \in Digits
    THEN Ok(DecValue(s, 0))
    ELSE Err("invalid float literal")

-----------------------------------------------------------------------------
(* Quantity parser *)

convert_quantity_to_int(quantity) ==
    IF Contains(quantity, "m")
    THEN LET r == ParseF32(RemoveChar(quantity, "m"))
         IN  IF r.tag = "Ok" THEN Ok(r.val) ELSE Err(<<"Failed to parse", quantity>>)
    ELSE IF Contains(quantity, "g")
    THEN LET r == ParseF32(RemoveChar(quantity, "g"))
         IN  IF r.tag = "Ok" THEN Ok(r.val * 1000)
             ELSE Err(<<"Failed to parse", quantity>>)
    ELSE LET r == ParseF32(quantity)
         IN  IF r.tag = "Ok" THEN Ok(r.val * 1000)
             ELSE Err(<<"Failed to parse", quantity>>)

-----------------------------------------------------------------------------
(* Compliance extractor *)

is_ecr_image(image) == \E i \in DOMAIN image : image[i] = "amazonaws.com/"

is_hosted_image(image) ==
    \E i \in DOMAIN image : image[i] \in {"gcr.io", "quay.io", "ghcr.io"}

\* lines 303-306, with the mistake of asking for a cpu key among the requests
QosCheckNeedsCpu(container) ==
    IF container.resources # None
    THEN /\ container.resources[1].requests # None
         /\ container.resources[1].requests[1].cpu # None
    ELSE FALSE

\* lines 303-306
QosCheck(container) ==
    IF container.resources # None
    THEN container.resources[1].requests # None
    ELSE FALSE

\* one container of the closure of extract_containers_and_info; the image is
\* unwrapped first, so a container without an image panics
ExtractContainer(name, namespace, type_of, pod_spec, replicas, container) ==
    IF container.image = None THEN Panicked
    ELSE
    LET image == container.image[1]
        image_check == is_ecr_image(image) \/ is_hosted_image(image)
        qos_check == QosCheck(container)
        cpu_request ==
            IF container.resources # None /\ container.resources[1].requests # None
            THEN LET requests == container.resources[1].requests[1]
                 IN  IF requests.cpu # None
                     THEN convert_quantity_to_int(requests.cpu[1])
                     ELSE Ok(0)
            ELSE Ok(0)
    IN  IF cpu_request.tag = "Ok"
        THEN Ok([object_name |-> name,
                 namespace |-> namespace,
                 type_of |-> type_of,
                 containers |-> container.name,
                 node_selectors |-> IF pod_spec.node_selector # None
                                    THEN pod_spec.node_selector[1] ELSE "None",
                 node_selector_check |-> pod_spec.node_selector # None,
                 qos_check |-> qos_check,
                 image_check |-> image_check,
                 image_url |-> image,
                 total_cores |-> cpu_request.val * replicas,
                 total_items |-> replicas])
        ELSE cpu_request

\* map(..).collect::<Result<Vec<_>>>(): containers are taken in order and the
\* first error ends the iteration
RECURSIVE CollectContainers(_, _, _, _, _, _, _)
CollectContainers(name, namespace, type_of, pod_spec, replicas, i, acc) ==
    IF i > Len(pod_spec.containers) THEN Ok(acc)
    ELSE LET r == ExtractContainer(name, namespace, type_of, pod_spec, replicas,
                                   pod_spec.containers[i])
         IN  IF r.tag = "Ok"
             THEN CollectContainers(name, namespace, type_of, pod_spec, replicas,
                                    i + 1, Append(acc, r.val))
             ELSE r

extract_containers_and_info(name, namespace, type_of, pod_spec, replicas) ==
    CollectContainers(name, namespace, type_of, pod_spec, replicas, 1, <<>>)

process_pod(pod) ==
    IF pod.spec = None THEN Err(<<"Unable to retrieve pod spec", pod.name>>)
    ELSE IF pod.namespace = None
    THEN Err(<<"Unable to retrieve pod namespace", pod.name>>)
    ELSE LET owners == IF pod.owner_references # None
                       THEN Join(pod.owner_references[1], Bar)
                       ELSE Str_pod \o <<":">> \o pod.name
         IN  extract_containers_and_info(owners, pod.namespace[1], Str_pod,
                                         pod.spec[1], 1)

\* pods.into_iter().map(process_pod).collect(): Vec<Vec<_>>, first error ends it
RECURSIVE CollectPods(_, _, _)
CollectPods(pods, i, acc) ==
    IF i > Len(pods) THEN Ok(acc)
    ELSE LET r == process_pod(pods[i])
         IN  IF r.tag = "Ok" THEN CollectPods(pods, i + 1, Append(acc, r.val))
             ELSE r

RECURSIVE Flatten(_)
Flatten(ss) == IF ss = <<>> THEN <<>> ELSE Head(ss) \o Flatten(Tail(ss))

-----------------------------------------------------------------------------
(* Aggregator *)

extract_container_level_key(x) ==
    x.object_name \o Dash \o x.namespace \o Dash \o x.type_of \o Dash \o x.containers

extract_object_level_key(x) ==
    x.object_name \o Dash \o x.namespace \o Dash \o x.type_of

KeyOf(function, x) ==
    IF function = "container" THEN extract_container_level_key(x)
    ELSE extract_object_level_key(x)

\* the merged container string: the pieces of the stored string and the whole
\* incoming string as a HashSet, joined in the set's iteration order
MergedContainers(inside, x) ==
    {Join(p, Bar) : p \in Perms(Range(Split(inside.containers, "|")) \union {x.containers})}

\* the fold step with the mistake of not adding the incoming record's totals
FoldStepKeepsStored(acc, function, x) ==
    LET key == KeyOf(function, x)
    IN  IF key \in DOMAIN acc
        THEN {acc}
        ELSE {[k \in DOMAIN acc \union {key} |-> IF k = key THEN x ELSE acc[k]]}

\* the fold step with the mistake of cloning the incoming record on a merge
FoldStepKeepsIncoming(acc, function, x) ==
    LET key == KeyOf(function, x)
    IN  IF key \in DOMAIN acc
        THEN LET inside == acc[key]
             IN  {[acc EXCEPT ![key] =
                      [x EXCEPT !.total_items = inside.total_items + x.total_items,
                                !.total_cores = inside.total_cores + x.total_cores,
                                !.containers = c]]
                  : c \in MergedContainers(inside, x)}
        ELSE {[k \in DOMAIN acc \union {key} |-> IF k = key THEN x ELSE acc[k]]}

\* the fold step with the mistake of taking the incoming record's image_url
FoldStepTakesIncomingImage(acc, function, x) ==
    LET key == KeyOf(function, x)
    IN  IF key \in DOMAIN acc
        THEN LET inside == acc[key]
             IN  {[acc EXCEPT ![key] =
                      [inside EXCEPT !.total_items = inside.total_items + x.total_items,
                                     !.total_cores = inside.total_cores + x.total_cores,
                                     !.containers = c,
                                     !.image_url = x.image_url]]
                  : c \in MergedContainers(inside, x)}
        ELSE {[k \in DOMAIN acc \union {key} |-> IF k = key THEN x ELSE acc[k]]}

\* one step of the fold: the maps it can produce (one per iteration order)
FoldStep(acc, function, x) ==
    LET key == KeyOf(function, x)
    IN  IF key \in DOMAIN acc
        THEN LET inside == acc[key]
             IN  {[acc EXCEPT ![key] =
                      [inside EXCEPT !.total_items = inside.total_items + x.total_items,
                                     !.total_cores = inside.total_cores + x.total_cores,
                                     !.containers = c]]
                  : c \in MergedContainers(inside, x)}
        ELSE {[k \in DOMAIN acc \union {key} |-> IF k = key THEN x ELSE acc[k]]}

RECURSIVE AggMaps(_, _)
AggMaps(input_vec, function) ==
    IF input_vec = <<>> THEN {<<>>}
    ELSE UNION {FoldStep(acc, function, input_vec[Len(input_vec)])
                : acc \in AggMaps(SubSeq(input_vec, 1, Len(input_vec) - 1), function)}

\* par_sort_unstable_by(|a, b| b.total_cores.partial_cmp(&a.total_cores)) started
\* from any order of the elements: every descending arrangement
RECURSIVE SortedArrangements(_, _)
SortedArrangements(recs, idx) ==
    IF idx = {} THEN {<<>>}
    ELSE UNION {{<<recs[m]>> \o s : s \in SortedArrangements(recs, idx \ {m})}
                : m \in {i \in idx : \A j \in idx : recs[j].total_cores <= recs[i].total_cores}}

\* the sort with the mistake of comparing a to b: ascending order
UnstableSortAsc(recs) ==
    {[i \in DOMAIN s |-> s[Len(s) + 1 - i]] : s \in SortedArrangements(recs, DOMAIN recs)}

UnstableSortDesc(recs) == SortedArrangements(recs, DOMAIN recs)

MapValues(m) == CHOOSE s \in Perms({m[k] : k \in DOMAIN m}) : TRUE

\* every vector agg_and_sort can return
agg_and_sort(input_vec, function) ==
    UNION {UnstableSortDesc(values)
           : values \in {MapValues(m) : m \in UNION {AggMaps(v, function) : v \in {input_vec}}}}

-----------------------------------------------------------------------------
(* The cluster: what the API server can answer for one namespace *)

NS == 1..NumNamespaces

\* the namespace list of lines 59-65: distinct names
NsName(n) == Name(n)

TrustedImage ==
    <<"095116963143.dkr.ecr.ap-southeast-1.", "amazonaws.com/", "datadog-agent:7.32.4">>

UntrustedImage == <<"datadog-agent:7.32.4">>

CpuRequests(q) == Some([requests |-> Some([cpu |-> Some(q)])])

Ctr(name, image, resources) == [name |-> name, image |-> image, resources |-> resources]

\* a pod owned by "a", one container with a whole-core request
PodOwnedA(ns) ==
    [name |-> <<>>, namespace |-> Some(ns), owner_references |-> Some(<<Name(1)>>),
     spec |-> Some([node_selector |-> Some("{\"key\": \"value\"}"),
                    containers |-> <<Ctr(<<"c">>, Some(TrustedImage), CpuRequests(<<"1">>))>>])]

\* a pod owned by "a-a", two containers, one without resources
PodOwnedAA(ns) ==
    [name |-> <<>>, namespace |-> Some(ns), owner_references |-> Some(<<Name(2)>>),
     spec |-> Some([node_selector |-> None,
                    containers |-> <<Ctr(<<"c">>, Some(UntrustedImage), CpuRequests(<<"2", "m">>)),
                                     Ctr(<<"d">>, Some(TrustedImage), None)>>])]

PodNoSpec(ns) ==
    [name |-> <<>>, namespace |-> Some(ns), owner_references |-> None, spec |-> None]

PodNoNamespace(ns) ==
    [name |-> <<>>, namespace |-> None, owner_references |-> None,
     spec |-> Some([node_selector |-> None,
                    containers |-> <<Ctr(<<"c">>, Some(TrustedImage), CpuRequests(<<"1">>))>>])]

PodNoImage(ns) ==
    [name |-> <<>>, namespace |-> Some(ns), owner_references |-> Some(<<Name(1)>>),
     spec |-> Some([node_selector |-> None,
                    containers |-> <<Ctr(<<"c">>, None, CpuRequests(<<"1">>))>>])]

\* the first container's cpu request does not parse, the second one's does
PodBadCpu(ns) ==
    [name |-> <<>>, namespace |-> Some(ns), owner_references |-> Some(<<Name(1)>>),
     spec |-> Some([node_selector |-> None,
                    containers |-> <<Ctr(<<"c">>, Some(TrustedImage), CpuRequests(<<"x">>)),
                                     Ctr(<<"d">>, Some(TrustedImage), CpuRequests(<<"5", "m">>))>>])]

PodShapes(ns) ==
    {PodOwnedA(ns), PodOwnedAA(ns), PodNoSpec(ns), PodNoNamespace(ns),
     PodNoImage(ns), PodBadCpu(ns)}

\* the pod lists of at most max pods; the pods of one list have distinct
\* names: "a", "a-a", ...
PodLists(ns, max) ==
    UNION {{[i \in 1..len |-> [shape[i] EXCEPT !.name = Name(i)]]
            : shape \in [1..len -> PodShapes(ns)]} : len \in 0..max}

-----------------------------------------------------------------------------
(* The pipeline of main *)

Capacity == NumNamespaces

\* the Sender clones alive after the spawn loop when drop(sender) is forgotten
SendersAfterSpawnNoDrop == NumNamespaces + 1

\* the Sender clones alive once the spawn loop is over and main's own is dropped
SendersAfterSpawn == NumNamespaces

\* no call of extract_containers_and_info on its own
ExtractIdle ==
    /\ exSpec = [node_selector |-> None, containers |-> <<>>]
    /\ exReplicas = 1
    /\ exOut = Ok(<<>>)
    /\ exDone = FALSE

\* main has not started
PipeIdle ==
    /\ pc = "spawn"
    /\ proc = "running"
    /\ tasks = [n \in NS |-> [st |-> "unspawned", pods |-> <<>>]]
    /\ senders1 = 1
    /\ chan1 = <<>>
    /\ rayon = [n \in NS |-> "none"]
    /\ senders2 = 0
    /\ chan2 = <<>>
    /\ rx2Open = FALSE
    /\ container_level_results = <<>>
    /\ object_level_results = <<>>
    /\ table = <<>>
    /\ log = {}
    /\ mainResult = None
    /\ disable_filter = FALSE

\* no call of agg_and_sort on its own
AggIdle ==
    /\ aggIn = <<>>
    /\ aggKey = "container"
    /\ aggOut = <<>>
    /\ aggDone = FALSE

Init == PipeIdle /\ AggIdle /\ ExtractIdle

\* lines 67-77: one task per namespace, main's sender dropped, second channel made
SpawnTasks ==
    /\ proc = "running" /\ pc = "spawn"
    /\ tasks' = [n \in NS |-> [st |-> "listing", pods |-> <<>>]]
    /\ senders1' = SendersAfterSpawn
    /\ senders2' = 1
    /\ rx2Open' = TRUE
    /\ log' = log \union {<<"Retrieving pods for namespace", NsName(n)>> : n \in NS}
    /\ pc' = "recv1"
    /\ UNCHANGED <<proc, chan1, rayon, chan2, container_level_results,
                   object_level_results, table, mainResult, disable_filter, aggVars, exVars>>

\* get_pods, lines 208-211: the list call fails; the task returns the error to
\* its JoinHandle, which nobody awaits, and its sender is dropped
ListFails(n) ==
    /\ proc = "running" /\ tasks[n].st = "listing"
    /\ tasks' = [tasks EXCEPT ![n].st = "failed"]
    /\ senders1' = senders1 - 1
    /\ UNCHANGED <<pc, proc, chan1, rayon, senders2, chan2, rx2Open,
                   container_level_results, object_level_results, table, log,
                   mainResult, disable_filter, aggVars, exVars>>

RECURSIVE PodsListedUpTo(_)
PodsListedUpTo(n) ==
    IF n = 0 THEN 0 ELSE PodsListedUpTo(n - 1) + Len(tasks[n].pods)

\* the pods the cluster still holds: it has MaxPods pods at most
PodsLeft == MaxPods - PodsListedUpTo(NumNamespaces)

\* get_pods, lines 208-212: the list call returns the pods of the namespace
ListReturns(n) ==
    /\ proc = "running" /\ tasks[n].st = "listing"
    /\ \E pods \in PodLists(NsName(n), PodsLeft) :
          tasks' = [tasks EXCEPT ![n] = [st |-> "fetched", pods |-> pods]]
    /\ log' = log \union {<<"Finished retrieving pods for namespace", NsName(n)>>}
    /\ UNCHANGED <<pc, proc, senders1, chan1, rayon, senders2, chan2, rx2Open,
                   container_level_results, object_level_results, table,
                   mainResult, disable_filter, aggVars, exVars>>

\* get_pods, lines 213-217: send(Ok(pod_list)).await waits for room in the channel
SendPods(n) ==
    /\ proc = "running" /\ tasks[n].st = "fetched"
    /\ Len(chan1) < Capacity
    /\ chan1' = Append(chan1, [ns |-> n, pods |-> tasks[n].pods])
    /\ tasks' = [tasks EXCEPT ![n].st = "sent"]
    /\ senders1' = senders1 - 1
    /\ UNCHANGED <<pc, proc, rayon, senders2, chan2, rx2Open,
                   container_level_results, object_level_results, table, log,
                   mainResult, disable_filter, aggVars, exVars>>

\* lines 80-99: a pod list arrives and its extraction is handed to rayon
Recv1Some ==
    /\ proc = "running" /\ pc = "recv1"
    /\ chan1 # <<>>
    /\ chan1' = Tail(chan1)
    /\ rayon' = [rayon EXCEPT ![Head(chan1).ns] = "queued"]
    /\ senders2' = senders2 + 1
    /\ UNCHANGED <<pc, proc, tasks, senders1, chan2, rx2Open,
                   container_level_results, object_level_results, table, log,
                   mainResult, disable_filter, aggVars, exVars>>

\* recv() returns None once the channel is empty and every sender is dropped
Chan1Closed == chan1 = <<>> /\ senders1 = 0

\* lines 100-104: the first loop ends, sender_2 is dropped
Recv1None ==
    /\ proc = "running" /\ pc = "recv1"
    /\ Chan1Closed
    /\ senders2' = senders2 - 1
    /\ pc' = "recv2"
    /\ UNCHANGED <<proc, tasks, senders1, chan1, rayon, chan2, rx2Open,
                   container_level_results, object_level_results, table, log,
                   mainResult, disable_filter, aggVars, exVars>>

\* lines 86-94: the closure's value, or Panicked
Aggregated(pods) ==
    UNION {IF containers_result.tag = "Ok"
           THEN {Ok(v) : v \in agg_and_sort(Flatten(containers_result.val), "container")}
           ELSE {containers_result}
           : containers_result \in {CollectPods(pods, 1, <<>>)}}

\* lines 84-99: the closure runs on a rayon thread; a panic in it (the unwrap of
\* a missing image, the expect on try_send) aborts the process
RayonRun(n) ==
    /\ proc = "running" /\ rayon[n] = "queued"
    /\ rayon' = [rayon EXCEPT ![n] = "ran"]
    /\ log' = log \union {<<"Spawning task to aggregate and sort results">>}
    /\ \E aggregated \in Aggregated(tasks[n].pods) :
          IF aggregated.tag = "Panic" \/ ~rx2Open \/ Len(chan2) >= Capacity
          THEN /\ proc' = "aborted"
               /\ UNCHANGED <<chan2, senders2>>
          ELSE /\ chan2' = Append(chan2, aggregated)
               /\ senders2' = senders2 - 1
               /\ UNCHANGED proc
    /\ UNCHANGED <<pc, tasks, senders1, chan1, rx2Open,
                   container_level_results, object_level_results, table,
                   mainResult, disable_filter, aggVars, exVars>>

\* line 111, with the mistake of keeping only the batch that arrived last
AppendResultsOverwrite(results, x) == x

\* line 111: container_level_results.append(&mut x)
AppendResults(results, x) == results \o x

\* lines 108-111: a result arrives; an Err makes main return it
Recv2Some ==
    /\ proc = "running" /\ pc = "recv2"
    /\ chan2 # <<>>
    /\ chan2' = Tail(chan2)
    /\ IF Head(chan2).tag = "Err"
       THEN /\ pc' = "failed"
            /\ mainResult' = Some(Head(chan2))
            /\ rx2Open' = FALSE
            /\ UNCHANGED container_level_results
       ELSE /\ container_level_results' =
                    AppendResults(container_level_results, Head(chan2).val)
            /\ UNCHANGED <<pc, mainResult, rx2Open>>
    /\ UNCHANGED <<proc, tasks, senders1, chan1, rayon, senders2,
                   object_level_results, table, log, disable_filter, aggVars, exVars>>

Chan2Closed == chan2 = <<>> /\ senders2 = 0

\* lines 112-114: the second loop ends
Recv2None ==
    /\ proc = "running" /\ pc = "recv2"
    /\ Chan2Closed
    /\ pc' = "rank"
    /\ UNCHANGED <<proc, tasks, senders1, chan1, rayon, senders2, chan2, rx2Open,
                   container_level_results, object_level_results, table, log,
                   mainResult, disable_filter, aggVars, exVars>>

\* line 123, with the mistake of keeping only the records that fail every check
FilteredFailsAll(recs) ==
    SelectSeq(recs, LAMBDA x : ~x.image_check /\ ~x.node_selector_check /\ ~x.qos_check)

\* line 123
Filtered(recs) ==
    SelectSeq(recs, LAMBDA x : ~x.image_check \/ ~x.node_selector_check \/ ~x.qos_check)

\* lines 116-161: sort, filter, table, object-level rollup, sort, return Ok(());
\* args.disable_filter is first read at line 127 and its value is drawn here
RankAndReport ==
    /\ proc = "running" /\ pc = "rank"
    /\ disable_filter' \in BOOLEAN
    /\ \E sorted \in UnstableSortDesc(container_level_results) :
          /\ container_level_results' = sorted
          /\ table' = IF disable_filter' THEN sorted ELSE Filtered(sorted)
          /\ \E agg \in agg_and_sort(sorted, "object") :
                object_level_results' \in UnstableSortDesc(agg)
    /\ log' = log \union {<<"Sorting container level results">>,
                          <<"Aggregating results at object_level...">>,
                          <<"Sorting object level results">>}
    /\ pc' = "done"
    /\ mainResult' = Some(Ok(<<>>))
    /\ rx2Open' = FALSE
    /\ UNCHANGED <<proc, tasks, senders1, chan1, rayon, senders2, chan2, aggVars, exVars>>

\* main has returned: the runtime is shut down and the process exits
Exit ==
    /\ proc = "running" /\ pc \in {"done", "failed"}
    /\ proc' = "exited"
    /\ UNCHANGED <<pc, tasks, senders1, chan1, rayon, senders2, chan2, rx2Open,
                   container_level_results, object_level_results, table, log,
                   mainResult, disable_filter, aggVars, exVars>>

Next ==
    \/ SpawnTasks
    \/ \E n \in NS : ListFails(n)
    \/ \E n \in NS : ListReturns(n)
    \/ \E n \in NS : SendPods(n)
    \/ Recv1Some
    \/ Recv1None
    \/ \E n \in NS : RayonRun(n)
    \/ Recv2Some
    \/ Recv2None
    \/ RankAndReport
    \/ Exit

Spec == Init /\ [][Next]_vars

\* the scheduling of the code: tokio polls every ready task, rayon runs every
\* queued closure, main is never starved and every list call returns, so the
\* program does not stop while a step is possible
Fairness == WF_vars(Next)

FairSpec == Spec /\ Fairness

\* every step but the return of a list call
CoordNext ==
    \/ SpawnTasks
    \/ \E n \in NS : SendPods(n)
    \/ Recv1Some
    \/ Recv1None
    \/ \E n \in NS : RayonRun(n)
    \/ Recv2Some
    \/ Recv2None
    \/ RankAndReport
    \/ Exit

\* the same scheduling, but a list call may never return
CoordFairness == WF_vars(CoordNext)

CoordFairSpec == Spec /\ CoordFairness

-----------------------------------------------------------------------------
(* agg_and_sort on its own: one call on a bounded record sequence *)

AggRecord(obj, ns, ctr, full) ==
    [object_name |-> obj,
     namespace |-> ns,
     type_of |-> Str_pod,
     containers |-> ctr,
     node_selectors |-> IF full THEN "{\"key\": \"value\"}" ELSE "None",
     node_selector_check |-> full,
     qos_check |-> full,
     image_check |-> full,
     image_url |-> IF full THEN TrustedImage ELSE UntrustedImage,
     total_cores |-> IF full THEN 1000 ELSE 2,
     total_items |-> IF full THEN 1 ELSE 2]

\* (object_name, namespace) of a record: "a" in "a", "a" in "a-a" and "a-a"
\* in "a"; the last two format to the same key
Workloads == {<<Name(1), Name(1)>>, <<Name(1), Name(2)>>, <<Name(2), Name(1)>>}

\* containers fields other than the name "c": another name, the list a merge
\* of "c" and "d" has made, and the list a merge of two such lists has made
OtherContainerFields ==
    {<<"d">>, <<"c", "|", "d">>, <<"c", "|", "d", "|", "c", "|", "d">>}

\* records of container "c" of every workload, passing or failing the three
\* checks, and records of workload "a" in "a" with the other containers fields
AggRecords ==
    {AggRecord(w[1], w[2], <<"c">>, full) : w \in Workloads, full \in BOOLEAN}
    \union
    {AggRecord(Name(1), Name(1), ctr, full) : ctr \in OtherContainerFields, full \in BOOLEAN}

AggInputs == UNION {[1..len -> AggRecords] : len \in 0..MaxRecs}

InitAgg ==
    /\ PipeIdle
    /\ aggIn \in AggInputs
    /\ aggKey \in {"container", "object"}
    /\ aggOut = <<>>
    /\ aggDone = FALSE
    /\ ExtractIdle

\* lines 234-261: one call of agg_and_sort
Aggregate ==
    /\ ~aggDone
    /\ aggOut' \in agg_and_sort(aggIn, aggKey)
    /\ aggDone' = TRUE
    /\ UNCHANGED <<aggIn, aggKey, pipeVars, exVars>>

NextAgg == Aggregate

SpecAgg == InitAgg /\ [][NextAgg]_vars

-----------------------------------------------------------------------------
(* extract_containers_and_info on its own: one call on a bounded pod spec *)

HostedImage == <<"gcr.io", "/", "datadog-agent:7.32.4">>

ExImages == {None, Some(TrustedImage), Some(UntrustedImage), Some(HostedImage)}

\* no resources, resources without requests, requests without a cpu key,
\* and cpu requests "400m", "1" and "x"
ExResources ==
    {None,
     Some([requests |-> None]),
     Some([requests |-> Some([cpu |-> None])]),
     CpuRequests(<<"4", "0", "0", "m">>),
     CpuRequests(<<"1">>),
     CpuRequests(<<"x">>)}

\* every image with a request of "400m", every resources with a trusted image,
\* and the container of tests::test_false_cases
ExContainers ==
    {Ctr(<<>>, image, CpuRequests(<<"4", "0", "0", "m">>)) : image \in ExImages}
    \union {Ctr(<<>>, Some(TrustedImage), resources) : resources \in ExResources}
    \union {Ctr(<<>>, Some(UntrustedImage), Some([requests |-> None]))}

\* the containers of one pod spec have distinct names: "ca", "ca-a", ...
ContainerName(i) == <<"c">> \o Name(i)

ExSpecs ==
    UNION {{[node_selector |-> sel,
             containers |-> [i \in 1..len |-> [cs[i] EXCEPT !.name = ContainerName(i)]]]
            : sel \in {None, Some("{\"key\": \"value\"}")}, cs \in [1..len -> ExContainers]}
           : len \in 0..MaxContainers}

\* bare pods, and the replica count of the tests
ExReplicas == {1, 10}

InitExtract ==
    /\ PipeIdle
    /\ AggIdle
    /\ exSpec \in ExSpecs
    /\ exReplicas \in ExReplicas
    /\ exOut = Ok(<<>>)
    /\ exDone = FALSE

\* lines 281-340: one call of extract_containers_and_info
Extract ==
    /\ ~exDone
    /\ exOut' = extract_containers_and_info(Name(1), Name(2), Str_pod, exSpec, exReplicas)
    /\ exDone' = TRUE
    /\ UNCHANGED <<exSpec, exReplicas, pipeVars, aggVars>>

NextExtract == Extract

SpecExtract == InitExtract /\ [][NextExtract]_vars

-----------------------------------------------------------------------------
(* Properties *)

RECURSIVE SumCores(_)
SumCores(recs) ==
    IF recs = <<>> THEN 0 ELSE Head(recs).total_cores + SumCores(Tail(recs))

RECURSIVE SumItems(_)
SumItems(recs) ==
    IF recs = <<>> THEN 0 ELSE Head(recs).total_items + SumItems(Tail(recs))

\* the records extraction produces for a fetched pod list (<<>> when it fails)
ExtractedOf(pods) ==
    LET r == CollectPods(pods, 1, <<>>)
    IN  IF r.tag = "Ok" THEN Flatten(r.val) ELSE <<>>

RECURSIVE ExtractedUpTo(_)
ExtractedUpTo(n) ==
    IF n = 0 THEN <<>>
    ELSE ExtractedUpTo(n - 1)
         \o (IF tasks[n].st = "sent" THEN ExtractedOf(tasks[n].pods) ELSE <<>>)

\* every per-container record extracted in the run, namespace by namespace
AllExtracted == ExtractedUpTo(NumNamespaces)

\* C3: agg_and_sort preserves the totals: the sums of total_cores and of
\* total_items over the output equal the sums over the input, for both keys
C3_AggregatePreservesTotals ==
    aggDone => /\ SumCores(aggOut) = SumCores(aggIn)
               /\ SumItems(aggOut) = SumItems(aggIn)

\* a call that merged records with non-zero totals
C3_Witness ==
    /\ aggDone
    /\ Len(aggIn) = 3 /\ Len(aggOut) = 2
    /\ SumCores(aggIn) > 1000

\* C4: in a completed run in which every retrieval and every extraction
\* succeeded, the object-level totals equal the container-level totals and
\* the totals of all the records extracted
C4_RollupsKeepTotals ==
    (pc = "done" /\ \A n \in NS : tasks[n].st = "sent") =>
        /\ SumCores(object_level_results) = SumCores(container_level_results)
        /\ SumCores(container_level_results) = SumCores(AllExtracted)
        /\ SumItems(object_level_results) = SumItems(container_level_results)
        /\ SumItems(container_level_results) = SumItems(AllExtracted)

\* a completed run with records from every namespace, merged by the
\* object-level rollup
C4_Witness ==
    /\ pc = "done" /\ \A n \in NS : tasks[n].st = "sent"
    /\ \A n \in NS : ExtractedOf(tasks[n].pods) # <<>>
    /\ Len(object_level_results) < Len(container_level_results)
    /\ SumCores(AllExtracted) > 0

Tuple4(x) == <<x.object_name, x.namespace, x.type_of, x.containers>>

Tuple3(x) == <<x.object_name, x.namespace, x.type_of>>

\* a workload the extraction cannot use: no pod spec, no namespace, or a
\* container without an image
Malformed(pod) ==
    \/ pod.spec = None
    \/ pod.namespace = None
    \/ \E i \in DOMAIN pod.spec[1].containers : pod.spec[1].containers[i].image = None

HasCpuRequest(c) ==
    /\ c.resources # None
    /\ c.resources[1].requests # None
    /\ c.resources[1].requests[1].cpu # None

UnparseableCpu(c) ==
    /\ HasCpuRequest(c)
    /\ convert_quantity_to_int(c.resources[1].requests[1].cpu[1]).tag = "Err"

HasBadCpu(pod) ==
    /\ pod.spec # None
    /\ \E i \in DOMAIN pod.spec[1].containers : UnparseableCpu(pod.spec[1].containers[i])

\* the pod with every unparseable cpu request read as a request of 0
ZeroBadCpu(pod) ==
    [pod EXCEPT !.spec = Some([pod.spec[1] EXCEPT !.containers =
        [i \in DOMAIN pod.spec[1].containers |->
            IF UnparseableCpu(pod.spec[1].containers[i])
            THEN [pod.spec[1].containers[i] EXCEPT !.resources = CpuRequests(<<"0">>)]
            ELSE pod.spec[1].containers[i]]])]

\* the records the specification expects of a fetched pod list: a malformed
\* workload gives none, an unparseable cpu request counts as zero cores
RECURSIVE ExpectedOf(_)
ExpectedOf(pods) ==
    IF pods = <<>> THEN <<>>
    ELSE (IF Malformed(Head(pods)) THEN <<>>
          ELSE process_pod(ZeroBadCpu(Head(pods))).val) \o ExpectedOf(Tail(pods))

RECURSIVE ExpectedUpTo(_)
ExpectedUpTo(n) ==
    IF n = 0 THEN <<>>
    ELSE ExpectedUpTo(n - 1)
         \o (IF tasks[n].st = "sent" THEN ExpectedOf(tasks[n].pods) ELSE <<>>)

AllExpected == ExpectedUpTo(NumNamespaces)

ResultTuples == {Tuple4(r) : r \in Range(container_level_results)}

FetchedPods == UNION {Range(tasks[n].pods) : n \in NS}

RunOver == proc # "running"

CompletedWithExpected ==
    /\ pc = "done"
    /\ \A r \in Range(AllExpected) : Tuple4(r) \in ResultTuples
    /\ SumItems(container_level_results) = SumItems(AllExpected)
    /\ SumCores(container_level_results) = SumCores(AllExpected)

\* C1: when the retrieval of a namespace fails, the run still completes, the
\* records of every namespace whose retrieval succeeded are in the final
\* container-level result, and the failed namespace contributes no record
C1_FetchFailureIsolated ==
    (RunOver /\ \E n \in NS : tasks[n].st = "failed") =>
        /\ CompletedWithExpected
        /\ \A n \in NS : tasks[n].st = "failed" =>
              \A r \in Range(container_level_results) : r.namespace # NsName(n)

\* C2: a workload with no pod spec, no namespace or a container without an
\* image contributes no record and does not abort the run; every other
\* workload is in the final result (runs without an unparseable cpu request)
C2_MalformedWorkloadSkipped ==
    (RunOver /\ \A pod \in FetchedPods : ~HasBadCpu(pod)) => CompletedWithExpected

\* C9: an unparseable cpu request gives a record of zero cores for that
\* container, the other containers keep their records and the run completes
\* (runs without a malformed workload)
C9_UnparseableCpuIsZero ==
    (RunOver /\ \A pod \in FetchedPods : ~Malformed(pod)) => CompletedWithExpected

\* a line of the log, other than the announcement written before the list
\* call, that names the namespace
FailureReported(n) ==
    \E l \in log : /\ Len(l) = 2
                   /\ l[2] = NsName(n)
                   /\ l[1] # "Retrieving pods for namespace"

\* C8: when the run has completed, every namespace whose retrieval failed is
\* named by a log line reporting it (the error main returns names a pod or a
\* quantity, never a namespace, and the task's own error stays in its
\* JoinHandle)
C8_FailedNamespaceReported ==
    pc = "done" => \A n \in NS : tasks[n].st = "failed" => FailureReported(n)

\* C5: the container-level rollup merges two records exactly when they agree
\* on (object_name, namespace, kind, container name), the object-level rollup
\* exactly when they agree on (object_name, namespace, kind): each level holds
\* one record per distinct tuple, carrying the items of that tuple
C5_MergedIffSameTuple ==
    pc = "done" =>
        /\ Len(container_level_results) =
              Cardinality({Tuple4(r) : r \in Range(AllExtracted)})
        /\ Len(object_level_results) =
              Cardinality({Tuple3(r) : r \in Range(container_level_results)})
        /\ \A o \in Range(object_level_results) :
              o.total_items =
                 SumItems(SelectSeq(container_level_results,
                                    LAMBDA r : Tuple3(r) = Tuple3(o)))

\* C10: the per-namespace results, combined, hold at most one record per
\* container-level key, with the totals one single pass over all the
\* extracted records gives for that key
C10_BatchesEqualSinglePass ==
    pc = "done" =>
        /\ \A i, j \in DOMAIN container_level_results :
              extract_container_level_key(container_level_results[i])
                 = extract_container_level_key(container_level_results[j]) => i = j
        /\ \A single \in agg_and_sort(AllExtracted, "container") :
              \A o \in Range(single) :
                 \E r \in Range(container_level_results) :
                    /\ extract_container_level_key(r) = extract_container_level_key(o)
                    /\ r.total_cores = o.total_cores
                    /\ r.total_items = o.total_items

\* C6: a namespace whose retrieval succeeded is handed to extraction whatever
\* the other retrievals do: no run is over while a fetched namespace has not
\* been handed to rayon
C6_FetchedIsHandedBeforeEnd ==
    RunOver => \A n \in NS : tasks[n].st \in {"fetched", "sent"} => rayon[n] # "none"

\* C7: when every list call returns, the run ends (main returns, or the
\* process aborts on a panic); a fetched pod list is sent, the first loop ends
\* once the first channel is empty with no sender left, and the second loop
\* ends once the second channel is empty with no sender left
C7_RunTerminates ==
    /\ <>(proc # "running")
    /\ \A n \in NS : (tasks[n].st = "fetched") ~> (tasks[n].st = "sent" \/ proc = "aborted")
    /\ (pc = "recv1" /\ Chan1Closed) ~> (pc # "recv1" \/ proc = "aborted")
    /\ (pc = "recv2" /\ Chan2Closed) ~> (pc # "recv2" \/ proc = "aborted")

\* a run that went through both loops and returned, one retrieval having failed
C7_Witness ==
    /\ pc = "done" /\ proc = "exited"
    /\ \E n \in NS : tasks[n].st = "failed"
    /\ \E n \in NS : tasks[n].st = "sent" /\ tasks[n].pods # <<>>
    /\ container_level_results # <<>>

Occurrences(recs, r) == Cardinality({i \in DOMAIN recs : recs[i] = r})

\* the same records, each the same number of times, in any order
SameRecords(a, b) ==
    /\ Len(a) = Len(b)
    /\ \A r \in Range(a) \union Range(b) : Occurrences(a, r) = Occurrences(b, r)

\* C11: agg_and_sort applied to its own output with the same key function
\* returns the records of that output, unchanged in every field, whatever
\* record sequence the first call was given
C11_AggregateIdempotent ==
    aggDone => \A again \in agg_and_sort(aggOut, aggKey) : SameRecords(again, aggOut)

\* the keys of the input of the call
InputKeys == {KeyOf(aggKey, aggIn[i]) : i \in DOMAIN aggIn}

\* the input records of a key, in input order
WithKey(k) == SelectSeq(aggIn, LAMBDA x : KeyOf(aggKey, x) = k)

FirstSeen(k) == Head(WithKey(k))

\* the fields a merge leaves alone
FixedFields(x) ==
    <<x.object_name, x.namespace, x.type_of, x.node_selectors,
      x.node_selector_check, x.qos_check, x.image_check, x.image_url>>

\* C12: the output holds one record per key of the input; it has the
\* first-seen record's object_name, namespace, kind, node selector text and
\* three flags (and image), unchanged by later records of the key, and only
\* its totals and its container list come from the merges
C12_MergeKeepsFirstSeenFields ==
    aggDone =>
        /\ Len(aggOut) = Cardinality(InputKeys)
        /\ \A k \in InputKeys :
              LET same == WithKey(k)
                  first == Head(same)
                  fixed == FixedFields(first)
                  names == Range(Split(first.containers, "|"))
                  items == SumItems(same)
                  cores == SumCores(same)
              IN  \E o \in Range(aggOut) :
                     /\ FixedFields(o) = fixed
                     /\ names \subseteq Range(Split(o.containers, "|"))
                     /\ o.total_items = items
                     /\ o.total_cores = cores

\* a call that merged, under one key, records that differ in their flags and
\* in their object_name
C12_Witness ==
    /\ aggDone
    /\ \E k \in InputKeys :
          /\ Len(WithKey(k)) >= 2
          /\ \E x \in Range(WithKey(k)) :
                /\ x.node_selector_check # FirstSeen(k).node_selector_check
                /\ x.object_name # FirstSeen(k).object_name

\* the names of a containers field
NamesOf(x) == Split(x.containers, "|")

NoDuplicate(names) == \A i, j \in DOMAIN names : names[i] = names[j] => i = j

\* C13: for input records that each carry one name or a duplicate-free list
\* of names, the container list of every output record is non-empty, names no
\* container twice, and names exactly the containers named by the input
\* records of its key
C13_ContainerNamesIsSetUnion ==
    (aggDone /\ \A i \in DOMAIN aggIn : NoDuplicate(NamesOf(aggIn[i]))) =>
        \A k \in InputKeys :
           \E o \in Range(aggOut) :
              /\ FixedFields(o) = FixedFields(FirstSeen(k))
              /\ o.containers # <<>>
              /\ NoDuplicate(NamesOf(o))
              /\ Range(NamesOf(o)) = UNION {Range(NamesOf(x)) : x \in Range(WithKey(k))}

\* a record that passes the three checks
Compliant(x) == x.image_check /\ x.node_selector_check /\ x.qos_check

\* C14: in a completed run the table holds, in ranked order, the records of
\* the container-level result that fail at least one check when the filter is
\* on (none that passes all three), and every record when it is disabled
C14_ReportFilter ==
    pc = "done" =>
        IF disable_filter
        THEN table = container_level_results
        ELSE /\ table = SelectSeq(container_level_results, LAMBDA x : ~Compliant(x))
             /\ \A x \in Range(table) : ~Compliant(x)
             /\ \A x \in Range(container_level_results) :
                   ~Compliant(x) => x \in Range(table)

\* a filtered report of a result that holds a compliant record and records
\* failing some but not all checks
C14_Witness ==
    /\ pc = "done" /\ ~disable_filter
    /\ \E x \in Range(container_level_results) : Compliant(x)
    /\ \E x \in Range(table) : x.qos_check /\ ~x.image_check
    /\ Len(table) < Len(container_level_results)

SortedDesc(recs) ==
    \A i, j \in DOMAIN recs : i < j => recs[i].total_cores >= recs[j].total_cores

\* C15: in every completed run the container-level and the object-level
\* sequences are in non-increasing order of total_cores
C15_ResultsSortedDescending ==
    pc = "done" => /\ SortedDesc(container_level_results)
                   /\ SortedDesc(object_level_results)

\* a completed run over two namespaces whose records have different totals
C15_Witness ==
    /\ pc = "done"
    /\ \A n \in NS : tasks[n].st = "sent" /\ tasks[n].pods # <<>>
    /\ \E i, j \in DOMAIN container_level_results :
          /\ container_level_results[i].total_cores > container_level_results[j].total_cores
          /\ container_level_results[i].namespace # container_level_results[j].namespace
    /\ \E i, j \in DOMAIN object_level_results :
          object_level_results[i].total_cores > object_level_results[j].total_cores

\* C16: the order of the final container-level sequence is fixed by its
\* records: the ranking of those records has one outcome, so that records
\* of equal total_cores cannot come out in another order on another run
C16_TieOrderDeterministic ==
    pc = "done" =>
        \A sorted \in UnstableSortDesc(container_level_results) :
           sorted = container_level_results

\* every container of the pod spec has an image and, if it requests cpu, a
\* quantity that parses
WellFormedSpec ==
    \A i \in DOMAIN exSpec.containers :
       /\ exSpec.containers[i].image # None
       /\ ~UnparseableCpu(exSpec.containers[i])

\* the quantities of the inputs, in millicores
QuantityMillis(q) ==
    CASE q = <<"4", "0", "0", "m">> -> 400
      [] q = <<"1">> -> 1000

ExpectedMillis(c) ==
    IF HasCpuRequest(c) THEN QuantityMillis(c.resources[1].requests[1].cpu[1]) ELSE 0

TrustedSubstrings == {"amazonaws.com/", "gcr.io", "quay.io", "ghcr.io"}

FalseCasesSpec ==
    [node_selector |-> None,
     containers |-> <<Ctr(ContainerName(1), Some(UntrustedImage), Some([requests |-> None]))>>]

\* C18: on the pod spec of test_false_cases with 10 replicas, the call
\* returns a non-empty result whose first record has image_check,
\* node_selector_check and qos_check all true
C18_FalseCasesAllTrue ==
    (exDone /\ exSpec = FalseCasesSpec /\ exReplicas = 10) =>
        /\ exOut.tag = "Ok"
        /\ exOut.val # <<>>
        /\ exOut.val[1].image_check
        /\ exOut.val[1].node_selector_check
        /\ exOut.val[1].qos_check

LastSeen(k) == WithKey(k)[Len(WithKey(k))]

\* the fields by which the record of a key is told in the output
KeptFields(x) ==
    <<x.object_name, x.namespace, x.type_of, x.node_selectors,
      x.node_selector_check, x.qos_check, x.image_check>>

\* o is the output record of the key whose input records are same
OutputOf(same, o) ==
    /\ KeptFields(o) = KeptFields(Head(same))
    /\ o.total_items = SumItems(same)

\* C19 as stated: the image_url of the record of a key is the image_url of
\* the last input record of that key
C19_ImageUrlLastSeen ==
    aggDone =>
        \A k \in InputKeys :
           LET same == WithKey(k)
               outputs == {o \in Range(aggOut) : OutputOf(same, o)}
           IN  \E o \in outputs : o.image_url = same[Len(same)].image_url

\* C19 as amended: the image_url of the record of a key is the image_url of
\* the first input record of that key, whatever images later records carry
C19_ImageUrlFirstSeen ==
    aggDone =>
        \A k \in InputKeys :
           LET same == WithKey(k)
               outputs == {o \in Range(aggOut) : OutputOf(same, o)}
           IN  /\ outputs # {}
               /\ \A o \in outputs : o.image_url = Head(same).image_url

\* a call that merged records of one key whose first and last images differ
C19_Witness ==
    /\ aggDone
    /\ \E k \in InputKeys :
          /\ Len(WithKey(k)) >= 2
          /\ FirstSeen(k).image_url # LastSeen(k).image_url
          /\ \E o \in Range(aggOut) :
                OutputOf(WithKey(k), o) /\ o.image_url = FirstSeen(k).image_url

\* the closure of namespace n reaches try_send (its extraction did not panic)
\* and the expect on try_send panics
TrySendFails(n) ==
    /\ RayonRun(n)
    /\ Panicked \notin Aggregated(tasks[n].pods)
    /\ proc' = "aborted"

\* C20: the second channel never holds more than Capacity results, and no
\* step of an extraction closure is a failed try_send, also after an
\* extraction error has made main return early
C20_TrySendNeverFails ==
    /\ [](Len(chan2) <= Capacity)
    /\ [][\A n \in NS : ~TrySendFails(n)]_vars

=============================================================================
